---- MODULE Spec2Model ----
(***************************************************************************)
(* TTFParser (fontdescriptor_obj.go, package core): the TrueType parser.   *)
(* A font file is a sequence of bytes; file position p (0-based) is the    *)
(* element p + 1 of the sequence.  Parse is followed stage by stage: the   *)
(* table directory, then head, hhea, maxp, hmtx, cmap, name, OS/2, post,   *)
(* loca and the font-byte cache.  One parser instance (me) may be handed   *)
(* several font paths one after the other.                                 *)
(***************************************************************************)
EXTENDS Integers, Sequences, FiniteSets, TLC

(***************************************************************************)
(* Bounds of the model.                                                    *)
(***************************************************************************)
\* Parse calls made on the one parser instance.
MaxParses == 2
\* The input fonts have 0..MaxHMetrics explicit metrics and 1..MaxGlyphs glyphs.
MaxHMetrics == 2
MaxGlyphs == 2

(***************************************************************************)
(* Big-endian encoding of the input files (the font generator's side).     *)
(***************************************************************************)
Zeros(n) == [i \in 1..n |-> 0]

U16(v) == <<v \div 256, v % 256>>

S16(v) == IF v < 0 THEN U16(v + 65536) ELSE U16(v)

U32(v) == <<v \div 16777216, (v \div 65536) % 256, (v \div 256) % 256, v % 256>>

RECURSIVE Flatten(_)
Flatten(ss) == IF ss = <<>> THEN <<>> ELSE Head(ss) \o Flatten(Tail(ss))

Min(a, b) == IF a < b THEN a ELSE b

Max(a, b) == IF a > b THEN a ELSE b

\* The four bytes of each table tag the parser seeks to.
TagHead == <<104, 101, 97, 100>>
TagHhea == <<104, 104, 101, 97>>
TagMaxp == <<109, 97, 120, 112>>
TagHmtx == <<104, 109, 116, 120>>
TagCmap == <<99, 109, 97, 112>>
TagName == <<110, 97, 109, 101>>
TagOS2 == <<79, 83, 47, 50>>
TagPost == <<112, 111, 115, 116>>
TagLoca == <<108, 111, 99, 97>>

TagOrder == <<TagHead, TagHhea, TagMaxp, TagHmtx, TagCmap, TagName, TagOS2, TagPost, TagLoca>>

(***************************************************************************)
(* The input fonts.  A font is described by the few values that vary and   *)
(* is laid out as a file: the 12-byte header, one 16-byte directory record *)
(* per table, then the tables in the order of TagOrder.  A table named in  *)
(* absent is left out of the directory and of the file; cut >= 0 truncates *)
(* the file to cut bytes.                                                  *)
(***************************************************************************)
HeadMagic == 1594834165

HeadBytes(d) ==
    Zeros(12) \o U32(d.headMagic) \o U16(0) \o U16(1000) \o Zeros(16)
    \o S16(-100) \o S16(-200) \o S16(900) \o S16(800) \o Zeros(6)
    \o S16(d.locFormat) \o U16(0)

HheaBytes(d) == Zeros(4) \o S16(800) \o S16(-200) \o Zeros(26) \o U16(d.nHM)

MaxpBytes(d) == Zeros(4) \o U16(d.numGlyphs)

HmtxBytes(d) ==
    Flatten([i \in 1..d.nHM |-> U16(d.aw[i]) \o S16(-1)])
    \o Flatten([i \in 1..Max(0, d.numGlyphs - d.nHM) |-> S16(-1)])

CmapSubtable(d) ==
    LET n == Len(d.segs) IN
    U16(d.cmapFormat) \o U16(16 + 8 * n + 2 * Len(d.gids) - d.cmapShort) \o U16(0)
    \o U16(2 * n) \o Zeros(6)
    \o Flatten([i \in 1..n |-> U16(d.segs[i].e)]) \o U16(0)
    \o Flatten([i \in 1..n |-> U16(d.segs[i].s)])
    \o Flatten([i \in 1..n |-> U16(d.segs[i].d)])
    \o Flatten([i \in 1..n |-> U16(d.segs[i].ro)])
    \o Flatten([i \in 1..Len(d.gids) |-> U16(d.gids[i])])

CmapBytes(d) ==
    LET n == Len(d.encs) IN
    U16(0) \o U16(n)
    \o Flatten([i \in 1..n |-> U16(d.encs[i][1]) \o U16(d.encs[i][2]) \o U32(4 + 8 * n)])
    \o CmapSubtable(d)

RECURSIVE PayloadOffset(_, _)
PayloadOffset(names, k) ==
    IF k = 1 THEN 0 ELSE PayloadOffset(names, k - 1) + Len(names[k - 1].payload)

NameBytes(d) ==
    LET n == Len(d.names) IN
    U16(0) \o U16(n) \o U16(6 + 12 * n)
    \o Flatten([i \in 1..n |-> Zeros(6) \o U16(d.names[i].id)
                                \o U16(Len(d.names[i].payload))
                                \o U16(PayloadOffset(d.names, i))])
    \o Flatten([i \in 1..n |-> d.names[i].payload])

OS2Bytes(d) ==
    U16(d.os2Version) \o Zeros(6) \o U16(0) \o Zeros(52) \o U16(32) \o Zeros(4)
    \o S16(700) \o S16(-300) \o S16(90) \o U16(950) \o U16(250)
    \o (IF d.os2Version >= 2 THEN Zeros(8) \o S16(480) \o S16(650) ELSE <<>>)

PostBytes(d) == Zeros(4) \o S16(-12) \o U16(0) \o S16(-75) \o S16(50) \o U32(1)

LocaBytes(d) ==
    IF d.locFormat = 0
    THEN Flatten([i \in 1..d.numGlyphs + 1 |-> U16(3 * (i - 1))])
    ELSE Flatten([i \in 1..d.numGlyphs + 1 |-> U32(6 * (i - 1))])

TableBytes(d, tag) ==
    CASE tag = TagHead -> HeadBytes(d)
      [] tag = TagHhea -> HheaBytes(d)
      [] tag = TagMaxp -> MaxpBytes(d)
      [] tag = TagHmtx -> HmtxBytes(d)
      [] tag = TagCmap -> CmapBytes(d)
      [] tag = TagName -> NameBytes(d)
      [] tag = TagOS2 -> OS2Bytes(d)
      [] tag = TagPost -> PostBytes(d)
      [] tag = TagLoca -> LocaBytes(d)

PresentTags(d) == SelectSeq(TagOrder, LAMBDA t : t \notin d.absent)

RECURSIVE TableStart(_, _, _)
TableStart(d, tags, k) ==
    IF k = 1 THEN 12 + 16 * Len(tags)
    ELSE TableStart(d, tags, k - 1) + Len(TableBytes(d, tags[k - 1]))

Whole(d, tags) ==
    (IF d.sfnt THEN <<0, 1, 0, 0>> ELSE <<79, 84, 84, 79>>)
    \o U16(Len(tags)) \o Zeros(6)
    \o Flatten([k \in 1..Len(tags) |->
                   tags[k] \o U32(0) \o U32(TableStart(d, tags, k))
                   \o U32(Len(TableBytes(d, tags[k])))])
    \o Flatten([k \in 1..Len(tags) |-> TableBytes(d, tags[k])])

Truncated(cut, whole) ==
    IF cut >= 0 THEN SubSeq(whole, 1, Min(cut, Len(whole))) ELSE whole

FontFile(d) == Truncated(d.cut, Whole(d, PresentTags(d)))

Seg(s, e, dl, ro) == [s |-> s, e |-> e, d |-> dl, ro |-> ro]

NameRec(id, payload) == [id |-> id, payload |-> payload]

\* The plain font: one explicit width for two glyphs, "A".."C" mapped to
\* glyphs 1..3, the closing 0xFFFF segment, PostScript name "AB".
BaseFont ==
    [sfnt |-> TRUE, absent |-> {}, cut |-> -1, headMagic |-> HeadMagic,
     locFormat |-> 0, nHM |-> 1, numGlyphs |-> 2, aw |-> <<500>>,
     encs |-> <<<<3, 1>>>>, cmapFormat |-> 4, cmapShort |-> 0,
     segs |-> <<Seg(65, 67, 65472, 0), Seg(65535, 65535, 1, 0)>>, gids |-> <<>>,
     names |-> <<NameRec(1, <<88>>), NameRec(6, <<65, 66>>)>>,
     os2Version |-> 3]

\* Fonts of every numberOfHMetrics/glyph count, each with widths of its own.
HmtxFonts ==
    [k \in 1..(MaxHMetrics + 1) * MaxGlyphs |->
        LET n == (k - 1) \div MaxGlyphs
            g == ((k - 1) % MaxGlyphs) + 1
        IN  [BaseFont EXCEPT !.nHM = n, !.numGlyphs = g,
                             !.aw = [i \in 1..n |-> 500 + 10 * k + i]]]

\* Fonts that lack one table.
AbsentFonts == [k \in 1..Len(TagOrder) |-> [BaseFont EXCEPT !.absent = {TagOrder[k]}]]

\* Files that end early: in the header, in the directory, and one byte before
\* the end of each table.
BaseTableEnd(k) ==
    TableStart(BaseFont, TagOrder, k) + Len(TableBytes(BaseFont, TagOrder[k]))

CutFonts ==
    <<[BaseFont EXCEPT !.cut = 0], [BaseFont EXCEPT !.cut = 5],
      [BaseFont EXCEPT !.cut = 30]>>
    \o [k \in 1..Len(TagOrder) |-> [BaseFont EXCEPT !.cut = BaseTableEnd(k) - 1]]

\* Fonts that parse, each with a character map and a PostScript name of its own.
CmapFonts ==
    <<  \* "A" resolves to 65536, that is glyph 0; the name is "A/B C"
      [BaseFont EXCEPT !.segs = <<Seg(65, 66, 65471, 0), Seg(65535, 65535, 1, 0)>>,
                       !.names = <<NameRec(6, <<65, 47, 66, 32, 67>>)>>],
        \* a segment that runs into 0xFFFF: 65533 is glyph 0, 65534 glyph 1;
        \* the name is "AB" in UTF-16BE
      [BaseFont EXCEPT !.segs = <<Seg(65533, 65535, 3, 0)>>,
                       !.names = <<NameRec(6, <<0, 65, 0, 66>>)>>],
        \* overlapping segments: "B" is glyph 2, then glyph 0; "C" 3, then 1;
        \* the name is "A0B"
      [BaseFont EXCEPT !.segs = <<Seg(65, 67, 65472, 0), Seg(66, 68, 65470, 0),
                                  Seg(65535, 65535, 1, 0)>>,
                       !.names = <<NameRec(6, <<65, 48, 66>>)>>],
        \* glyph indices from glyphIdArray; the name is "(%)", and a second
        \* record of nameID 6 follows
      [BaseFont EXCEPT !.segs = <<Seg(48, 48, 65489, 0), Seg(65, 67, 3, 4),
                                  Seg(65535, 65535, 1, 0)>>,
                       !.gids = <<7, 0, 65534>>,
                       !.names = <<NameRec(6, <<40, 37, 41>>), NameRec(6, <<90>>)>>],
        \* the record of platform 3, encoding 1 comes second; OS/2 of version
        \* 1, loca of 4-byte entries
      [BaseFont EXCEPT !.encs = <<<<0, 3>>, <<3, 1>>>>, !.os2Version = 1,
                       !.locFormat = 1]>>

\* Fonts that a stage rejects.
RejectedFonts ==
    <<[BaseFont EXCEPT !.sfnt = FALSE],
      [BaseFont EXCEPT !.headMagic = HeadMagic - 1],
        \* no record of platform 3, encoding 1
      [BaseFont EXCEPT !.encs = <<<<1, 0>>, <<3, 0>>>>],
      [BaseFont EXCEPT !.cmapFormat = 12],
        \* a subtable length smaller than its fixed part
      [BaseFont EXCEPT !.cmapShort = 20],
        \* a PostScript name of zero bytes only, and none at all
      [BaseFont EXCEPT !.names = <<NameRec(6, <<0, 0>>)>>],
      [BaseFont EXCEPT !.names = <<NameRec(1, <<88>>)>>]>>

FontDescs == HmtxFonts \o AbsentFonts \o CutFonts \o CmapFonts \o RejectedFonts

\* The files Parse is handed, by path.
Fonts == [k \in 1..Len(FontDescs) |-> FontFile(FontDescs[k])]

(***************************************************************************)
(* The binary cursor.  A reader r is the open file's state as Parse sees   *)
(* it: pos, the file position; err, the error the running function has     *)
(* returned with (NoErr while it runs); short, whether some Read asked for  *)
(* bytes beyond the end of the file (kept for the record, the code has no   *)
(* such field).  An operation applied to a reader whose err is set does     *)
(* nothing: the function returned before reaching it.                       *)
(***************************************************************************)
NoErr == "nil"
ErrEOF == "EOF"
ErrOutOfLength == "file out of length"
ErrNotFound == "me.tables not contain key"
ErrFormat == "Unrecognized file (font) format"
ERROR_NO_UNICODE_ENCODING_FOUND == "No Unicode encoding found"
ERROR_UNEXPECTED_SUBTABLE_FORMAT == "Unexpected subtable format"
ERROR_INCORRECT_MAGIC_NUMBER == "Incorrect magic number"
ERROR_POSTSCRIPT_NAME_NOT_FOUND == "PostScript name not found"
ErrOpen == "open: no such file"
\* Not an error value: the run-time panic of an index out of range.
PanicIndex == "panic: index out of range"

ShortReadErrors == {ErrEOF, ErrOutOfLength}

Fail(r, e) == [r EXCEPT !.err = e]

\* What Read makes of the readlength bytes fd.Read(buff) delivered, without
\* the comparison of readlength with length: the buffer keeps its zero bytes
\* where the file delivered nothing.
DeliverUnchecked(file, r, length, readlength) ==
    IF length > 0 /\ readlength = 0
    THEN [r |-> [r EXCEPT !.err = ErrEOF, !.short = TRUE], b |-> <<>>]
    ELSE [r |-> [r EXCEPT !.pos = r.pos + readlength,
                          !.short = r.short \/ readlength < length],
          b |-> SubSeq(file, r.pos + 1, r.pos + readlength) \o Zeros(length - readlength)]

\* What Read makes of the readlength bytes fd.Read(buff) delivered: io.EOF
\* when there were none and length > 0, "file out of length" when there were
\* fewer than length, the bytes otherwise.
Deliver(file, r, length, readlength) ==
    IF length > 0 /\ readlength = 0
    THEN [r |-> [r EXCEPT !.err = ErrEOF, !.short = TRUE], b |-> <<>>]
    ELSE IF readlength # length
    THEN [r |-> [r EXCEPT !.pos = r.pos + readlength, !.err = ErrOutOfLength,
                          !.short = TRUE],
          b |-> <<>>]
    ELSE [r |-> [r EXCEPT !.pos = r.pos + length],
          b |-> SubSeq(file, r.pos + 1, r.pos + length)]

\* fd.Read(buff) delivers min(length, bytes left) bytes.
Read(file, r, length) ==
    IF r.err # NoErr THEN [r |-> r, b |-> <<>>]
    ELSE Deliver(file, r, length, Max(0, Min(length, Len(file) - r.pos)))

\* big.Int.SetBytes: the bytes as one big-endian unsigned number.
RECURSIVE SetBytes(_)
SetBytes(b) ==
    IF b = <<>> THEN 0 ELSE 256 * SetBytes(SubSeq(b, 1, Len(b) - 1)) + b[Len(b)]

Uint64Of(x) == [r |-> x.r, v |-> IF x.r.err # NoErr THEN 0 ELSE SetBytes(x.b)]

Signed16(u) == IF u >= 32768 THEN u - 65536 ELSE u

Int64Of(x) == [r |-> x.r, v |-> IF x.r.err # NoErr THEN 0 ELSE Signed16(SetBytes(x.b))]

ReadUShort(file, r) == Uint64Of(Read(file, r, 2))

ReadShort(file, r) == Int64Of(Read(file, r, 2))

ReadULong(file, r) == Uint64Of(Read(file, r, 4))

\* fd.Seek(length, 1): a position beyond the end of the file is no error.
Skip(r, length) == IF r.err # NoErr THEN r ELSE [r EXCEPT !.pos = r.pos + length]

\* fd.Seek(offset, 0).
SeekTo(r, offset) == IF r.err # NoErr THEN r ELSE [r EXCEPT !.pos = offset]

Seek(tables, r, tag) ==
    IF r.err # NoErr THEN r
    ELSE IF tag \notin DOMAIN tables THEN Fail(r, ErrNotFound)
    ELSE [r EXCEPT !.pos = tables[tag].Offset]

\* A call whose returned error the caller drops.
ErrorDropped(r) == [r EXCEPT !.err = NoErr]

\* n calls of ReadUShort one after the other, up to the first that fails: k of
\* them find their two bytes, and if k < n the next one returns the error.
UShortsOf(file, r, n, k) ==
    [r |-> IF k = n THEN [r EXCEPT !.pos = r.pos + 2 * k]
           ELSE ReadUShort(file, [r EXCEPT !.pos = r.pos + 2 * k]).r,
     v |-> [i \in 1..k |-> SetBytes(SubSeq(file, r.pos + 2 * i - 1, r.pos + 2 * i))]]

ReadUShorts(file, r, n) ==
    IF r.err # NoErr THEN [r |-> r, v |-> <<>>]
    ELSE UShortsOf(file, r, n, Min(n, Max(0, (Len(file) - r.pos) \div 2)))

(***************************************************************************)
(* A run of cursor calls, each followed by "if err != nil { return err }", *)
(* written as a layout: the calls in the order of the code.  ReadFields    *)
(* makes them one after the other up to the first that fails and gives the *)
(* reader, vals (the value of every call completed, 0 for a Skip) and      *)
(* failedAt (the call that failed, 0 if none did).                         *)
(***************************************************************************)
SkipF(n) == [kind |-> "skip", n |-> n]
UShortF == [kind |-> "ushort", n |-> 0]
ShortF == [kind |-> "short", n |-> 0]
ULongF == [kind |-> "ulong", n |-> 0]
BytesF(n) == [kind |-> "bytes", n |-> n]
UShortsF(n) == [kind |-> "ushorts", n |-> n]
FTellF == [kind |-> "ftell", n |-> 0]

BytesOf(x) == [r |-> x.r, v |-> x.b]

ReadField(file, r, f) ==
    CASE f.kind = "skip" -> [r |-> Skip(r, f.n), v |-> 0]
      [] f.kind = "ushort" -> ReadUShort(file, r)
      [] f.kind = "short" -> ReadShort(file, r)
      [] f.kind = "ulong" -> ReadULong(file, r)
      [] f.kind = "bytes" -> BytesOf(Read(file, r, f.n))
      [] f.kind = "ushorts" -> ReadUShorts(file, r, f.n)
      [] f.kind = "ftell" -> [r |-> r, v |-> r.pos]

AfterField(x, call, k) ==
    [r |-> call.r,
     vals |-> IF call.r.err = NoErr THEN Append(x.vals, call.v) ELSE x.vals,
     failedAt |-> IF call.r.err = NoErr THEN 0 ELSE k]

RECURSIVE ReadFieldsFrom(_, _, _, _)
ReadFieldsFrom(file, x, layout, k) ==
    IF k > Len(layout) \/ x.r.err # NoErr THEN x
    ELSE ReadFieldsFrom(file, AfterField(x, ReadField(file, x.r, layout[k]), k),
                        layout, k + 1)

NoFields(r) == [r |-> r, vals |-> <<>>, failedAt |-> 0]

ReadFields(file, r, layout) == ReadFieldsFrom(file, NoFields(r), layout, 1)

\* Whether call k of the layout was completed.
Got(x, k) == k <= Len(x.vals)

\* "v, err := call(); if err != nil { return err }; me.f = v": the field is
\* assigned once call k has succeeded.
Checked(old, x, k) == IF Got(x, k) THEN x.vals[k] ELSE old

\* "me.f, err = call()": the field is assigned by call k also when it fails,
\* and then takes the 0 the call returns beside its error.
Direct(old, x, k) == IF Got(x, k) THEN x.vals[k] ELSE IF x.failedAt = k THEN 0 ELSE old

(***************************************************************************)
(* The parser instance.  A stage takes the file, the parser's fields m and *)
(* the reader, and gives the fields and the reader it leaves; the reader's *)
(* err is the error the stage returned.                                    *)
(***************************************************************************)
\* The zero value of TTFParser: nil maps and slices are empty.
NewParser ==
    [tables |-> <<>>, unitsPerEm |-> 0, xMin |-> 0, yMin |-> 0, xMax |-> 0,
     yMax |-> 0, indexToLocFormat |-> 0, numberOfHMetrics |-> 0, ascender |-> 0,
     descender |-> 0, numGlyphs |-> 0, widths |-> <<>>, chars |-> <<>>,
     postScriptName |-> <<>>, os2Version |-> 0, Embeddable |-> FALSE,
     Bold |-> FALSE, typoAscender |-> 0, typoDescender |-> 0, capHeight |-> 0,
     sxHeight |-> 0, italicAngle |-> 0, underlinePosition |-> 0,
     underlineThickness |-> 0, isFixedPitch |-> FALSE, sTypoLineGap |-> 0,
     usWinAscent |-> 0, usWinDescent |-> 0, IsShortIndex |-> FALSE,
     LocaTable |-> <<>>, SegCount |-> 0, StartCount |-> <<>>, EndCount |-> <<>>,
     IdRangeOffset |-> <<>>, IdDelta |-> <<>>, GlyphIdArray |-> <<>>,
     symbol |-> FALSE, cahceFontData |-> <<>>]

\* The directory loop of Parse: tag, checksum, offset, length per table; a
\* tag met again replaces the earlier entry.
DirectoryRecord == <<BytesF(4), ULongF, ULongF, ULongF>>

TableEntry(tables, rec) ==
    [t \in DOMAIN tables \cup {rec.vals[1]} |->
        IF t = rec.vals[1]
        THEN [Offset |-> rec.vals[3], CheckSum |-> rec.vals[2], Length |-> rec.vals[4]]
        ELSE tables[t]]

RECURSIVE DirectoryLoop(_, _, _, _)
RECURSIVE DirectoryNext(_, _, _, _)
DirectoryNext(file, tables, rec, n) ==
    IF rec.r.err # NoErr THEN [tables |-> tables, r |-> rec.r]
    ELSE DirectoryLoop(file, TableEntry(tables, rec), rec.r, n - 1)

DirectoryLoop(file, tables, r, n) ==
    IF n = 0 \/ r.err # NoErr THEN [tables |-> tables, r |-> r]
    ELSE DirectoryNext(file, tables, ReadFields(file, r, DirectoryRecord), n)

\* The version of the file, compared with 00 01 00 00.
CheckVersion(version) ==
    IF version.r.err = NoErr /\ version.b # <<0, 1, 0, 0>>
    THEN Fail(version.r, ErrFormat) ELSE version.r

ReadVersion(file, r0) == CheckVersion(Read(file, r0, 4))

\* numTables, then searchRange/entrySelector/rangeShift skipped.
DirectoryHead == <<UShortF, SkipF(6)>>

DirectoryResult(m, loop) == [me |-> [m EXCEPT !.tables = loop.tables], r |-> loop.r]

\* Parse from me.tables = make(...) on.
DirectoryFromHead(file, m, head) ==
    IF head.r.err # NoErr THEN [me |-> m, r |-> head.r]
    ELSE DirectoryResult(m, DirectoryLoop(file, <<>>, head.r, head.vals[1]))

\* Parse, from the first Read to the end of the directory loop; the error of
\* the Skip is dropped.
ParseDirectory(file, m, r0) ==
    DirectoryFromHead(file, m, ReadFields(file, ReadVersion(file, r0), DirectoryHead))

HeadMagicLayout == <<SkipF(12), ULongF>>

HeadLayout == <<SkipF(2), UShortF, SkipF(16), ShortF, ShortF, ShortF, ShortF, SkipF(6), ShortF>>

CheckMagic(magicNumber) ==
    IF magicNumber.r.err = NoErr /\ magicNumber.vals[2] # HeadMagic
    THEN Fail(magicNumber.r, ERROR_INCORRECT_MAGIC_NUMBER)
    ELSE magicNumber.r

\* ParseHead as far as the test of the magic number.
ReadHeadMagic(file, tables, r0) ==
    CheckMagic(ReadFields(file, Seek(tables, r0, TagHead), HeadMagicLayout))

HeadResult(m, x) ==
    [me |-> [m EXCEPT !.unitsPerEm = Direct(@, x, 2),
                      !.xMin = Direct(@, x, 4),
                      !.yMin = Direct(@, x, 5),
                      !.xMax = Direct(@, x, 6),
                      !.yMax = Direct(@, x, 7),
                      !.indexToLocFormat = Direct(@, x, 9)],
     r |-> x.r]

ParseHead(file, m, r0) ==
    HeadResult(m, ReadFields(file, ReadHeadMagic(file, m.tables, r0), HeadLayout))

HheaLayout == <<SkipF(4), ShortF, ShortF, SkipF(26), UShortF>>

HheaResult(m, x) ==
    [me |-> [m EXCEPT !.ascender = Direct(@, x, 2),
                      !.descender = Direct(@, x, 3),
                      !.numberOfHMetrics = Direct(@, x, 5)],
     r |-> x.r]

ParseHhea(file, m, r0) ==
    HheaResult(m, ReadFields(file, Seek(m.tables, r0, TagHhea), HheaLayout))

MaxpLayout == <<SkipF(4), UShortF>>

MaxpResult(m, x) == [me |-> [m EXCEPT !.numGlyphs = Direct(@, x, 2)], r |-> x.r]

ParseMaxp(file, m, r0) ==
    MaxpResult(m, ReadFields(file, Seek(m.tables, r0, TagMaxp), MaxpLayout))

ArrayPadUint(arr, size, val) ==
    [i \in 1..size |-> IF i <= Len(arr) THEN arr[i] ELSE val]

\* The loop of ParseHmtx: an advance width, two bytes skipped, n times.
HmtxRecord == <<UShortF, SkipF(2)>>

RECURSIVE HmtxLoop(_, _, _, _)
RECURSIVE HmtxNext(_, _, _, _)
HmtxNext(file, widths, rec, n) ==
    IF rec.r.err # NoErr THEN [widths |-> widths, r |-> rec.r]
    ELSE HmtxLoop(file, Append(widths, rec.vals[1]), rec.r, n - 1)

HmtxLoop(file, widths, r, n) ==
    IF n = 0 \/ r.err # NoErr THEN [widths |-> widths, r |-> r]
    ELSE HmtxNext(file, widths, ReadFields(file, r, HmtxRecord), n)

\* ParseHmtx after its loop.  The index numberOfHMetrics-1 is unsigned: with
\* no metrics it is 2^64 - 1, and indexing me.widths with it panics.
HmtxResult(m, loop) ==
    IF loop.r.err # NoErr \/ ~(m.numberOfHMetrics < m.numGlyphs)
    THEN [me |-> [m EXCEPT !.widths = loop.widths], r |-> loop.r]
    ELSE IF m.numberOfHMetrics = 0 \/ m.numberOfHMetrics - 1 >= Len(loop.widths)
    THEN [me |-> [m EXCEPT !.widths = loop.widths], r |-> Fail(loop.r, PanicIndex)]
    ELSE [me |-> [m EXCEPT !.widths =
                     ArrayPadUint(loop.widths, m.numGlyphs,
                                  loop.widths[m.numberOfHMetrics])],
          r |-> loop.r]

\* me.widths is appended to as it stands; the error of Seek is dropped.
ParseHmtx(file, m, r0) ==
    HmtxResult(m, HmtxLoop(file, m.widths, ErrorDropped(Seek(m.tables, r0, TagHmtx)),
                           m.numberOfHMetrics))

\* The encoding records of the cmap table: offset31 is the offset of the last
\* record of platform 3, encoding 1; reset tells whether me.symbol was set
\* (to false: the test of encodingID == 0 sits inside encodingID == 1).
EncodingRecord == <<UShortF, UShortF, ULongF>>

RECURSIVE CmapRecords(_, _, _, _, _)
RECURSIVE CmapRecordsNext(_, _, _, _, _)
CmapRecordsNext(file, rec, n, offset31, reset) ==
    IF rec.r.err # NoErr THEN [r |-> rec.r, offset31 |-> offset31, reset |-> reset]
    ELSE CmapRecords(file, rec.r, n - 1,
                     IF rec.vals[1] = 3 /\ rec.vals[2] = 1 THEN rec.vals[3] ELSE offset31,
                     TRUE)

CmapRecords(file, r, n, offset31, reset) ==
    IF n = 0 \/ r.err # NoErr THEN [r |-> r, offset31 |-> offset31, reset |-> reset]
    ELSE CmapRecordsNext(file, ReadFields(file, r, EncodingRecord), n, offset31, reset)

CheckOffset31(recs) ==
    [recs EXCEPT !.r = IF recs.r.err = NoErr /\ recs.offset31 = 0
                       THEN Fail(recs.r, ERROR_NO_UNICODE_ENCODING_FOUND)
                       ELSE recs.r]

CmapRecordsOf(file, numTables) ==
    CheckOffset31(CmapRecords(file, numTables.r, numTables.v, 0, FALSE))

\* ParseCmap as far as the test of offset31; the errors of Seek and of the
\* Skip are dropped.
CmapEncodings(file, tables, r0) ==
    CmapRecordsOf(file, ReadUShort(file, Skip(ErrorDropped(Seek(tables, r0, TagCmap)), 2)))

CheckFormat(format) ==
    IF format.r.err = NoErr /\ format.v # 4
    THEN Fail(format.r, ERROR_UNEXPECTED_SUBTABLE_FORMAT) ELSE format.r

\* The subtable's format: me.tables["cmap"] of a missing key is the zero entry.
CmapFormat(file, tables, recs) ==
    CheckFormat(ReadUShort(file,
                    SeekTo(recs.r,
                           (IF TagCmap \in DOMAIN tables THEN tables[TagCmap].Offset ELSE 0)
                           + recs.offset31)))

\* length, language, segCountX2, searchRange/entrySelector/rangeShift.
SubtableHead == <<UShortF, SkipF(2), UShortF, SkipF(6)>>

\* glyphCount is unsigned: a length below 16 + 8*segCount wraps to about 2^63,
\* and the loop that reads glyphIdArray then runs into the end of the file;
\* Len(file) + 1 reads stand for it.
GlyphCount(file, length, segCount) ==
    IF length >= 16 + 8 * segCount THEN (length - (16 + 8 * segCount)) \div 2
    ELSE Len(file) + 1

\* endCount, reservedPad, startCount, idDelta, FTell, idRangeOffset, glyphIdArray.
SubtableArrays(segCount, glyphCount) ==
    <<UShortsF(segCount), SkipF(2), UShortsF(segCount), UShortsF(segCount), FTellF,
      UShortsF(segCount), UShortsF(glyphCount)>>

ReadSubtableArrays(file, head) ==
    IF head.r.err # NoErr THEN NoFields(head.r)
    ELSE ReadFields(file, head.r,
                    SubtableArrays(head.vals[3] \div 2,
                                   GlyphCount(file, head.vals[1], head.vals[3] \div 2)))

Wrap16(gid) == IF gid >= 65536 THEN gid - 65536 ELSE gid

\* The glyph of codepoint c: the value read plus idDelta where idRangeOffset
\* is positive and the value is, c plus idDelta otherwise; less 65536 from
\* 65536 on.
GlyphOf(read, d, rangeOffset) ==
    Wrap16(IF rangeOffset > 0 /\ read.v > 0 THEN read.v + d ELSE read.v)

\* The assignment without its test of gid > 0.
StoreCharAlways(st, r, i, c, gid) ==
    [chars |-> [x \in DOMAIN st.chars \cup {c} |-> IF x = c THEN gid ELSE st.chars[x]],
     stores |-> Append(st.stores, <<i, c, gid>>),
     r |-> r]

\* The assignment, with a glyph index of 0 taking the codepoint out of the map.
StoreCharOrDelete(st, r, i, c, gid) ==
    IF gid > 0
    THEN [chars |-> [x \in DOMAIN st.chars \cup {c} |-> IF x = c THEN gid ELSE st.chars[x]],
          stores |-> Append(st.stores, <<i, c, gid>>),
          r |-> r]
    ELSE [chars |-> [x \in DOMAIN st.chars \ {c} |-> st.chars[x]],
          stores |-> st.stores,
          r |-> r]

\* me.chars[c] = gid, for gid > 0.  st holds the character map, the reader
\* and stores, the assignments made so far, in order, as <<i, c, gid>>.
StoreChar(st, r, i, c, gid) ==
    IF gid > 0
    THEN [chars |-> [x \in DOMAIN st.chars \cup {c} |-> IF x = c THEN gid ELSE st.chars[x]],
          stores |-> Append(st.stores, <<i, c, gid>>),
          r |-> r]
    ELSE [st EXCEPT !.r = r]

\* The loop over the codepoints c..c2 of segment i (counted from 0).
RECURSIVE CharLoop(_, _, _, _, _, _, _)
RECURSIVE CharNext(_, _, _, _, _, _, _, _)
\* The step of the loop with the file position set back after the read, so
\* that every codepoint of the segment reads the same two bytes.
CharNextSamePosition(file, st, read, i, c, c2, d, rangeOffset) ==
    IF read.r.err # NoErr THEN [st EXCEPT !.r = read.r]
    ELSE CharLoop(file, StoreChar(st, st.r, i, c, GlyphOf(read, d, rangeOffset)),
                  i, c + 1, c2, d, rangeOffset)

CharNext(file, st, read, i, c, c2, d, rangeOffset) ==
    IF read.r.err # NoErr THEN [st EXCEPT !.r = read.r]
    ELSE CharLoop(file, StoreChar(st, read.r, i, c, GlyphOf(read, d, rangeOffset)),
                  i, c + 1, c2, d, rangeOffset)

CharLoop(file, st, i, c, c2, d, rangeOffset) ==
    IF c > c2 \/ c = 65535 THEN st
    ELSE CharNext(file, st,
                  IF rangeOffset > 0 THEN ReadUShort(file, st.r)
                  ELSE [r |-> st.r, v |-> c + d],
                  i, c, c2, d, rangeOffset)

\* The Seek of a segment whose idRangeOffset is positive; offset is the
\* position of the idRangeOffset array.
SegmentSeek(st, i, rangeOffset, offset) ==
    IF rangeOffset > 0 THEN [st EXCEPT !.r = SeekTo(st.r, offset + 2 * i + rangeOffset)]
    ELSE st

\* The loop over the segments i..n-1, in file order.
RECURSIVE SegmentLoop(_, _, _, _, _, _, _, _, _)
SegmentLoop(file, st, i, n, startCount, endCount, idDelta, idRangeOffset, offset) ==
    IF i >= n \/ st.r.err # NoErr THEN st
    ELSE SegmentLoop(file,
             CharLoop(file, SegmentSeek(st, i, idRangeOffset[i + 1], offset),
                      i, startCount[i + 1], endCount[i + 1], idDelta[i + 1],
                      idRangeOffset[i + 1]),
             i + 1, n, startCount, endCount, idDelta, idRangeOffset, offset)

NoChars(r) == [chars |-> <<>>, stores |-> <<>>, r |-> r]

\* me.chars = make(...) and the loop over the segments.
CmapSegments(file, head, arrays) ==
    IF arrays.r.err # NoErr \/ head.r.err # NoErr THEN NoChars(arrays.r)
    ELSE SegmentLoop(file, NoChars(arrays.r), 0,
                     head.vals[3] \div 2, arrays.vals[3], arrays.vals[1],
                     arrays.vals[4], arrays.vals[6], arrays.vals[5])

CmapResult(m, recs, head, arrays, segs) ==
    [me |-> [m EXCEPT !.symbol = IF recs.reset THEN FALSE ELSE @,
                      !.SegCount = IF Got(head, 3) THEN head.vals[3] \div 2 ELSE @,
                      !.EndCount = Checked(@, arrays, 1),
                      !.StartCount = Checked(@, arrays, 3),
                      !.IdDelta = Checked(@, arrays, 4),
                      !.IdRangeOffset = Checked(@, arrays, 6),
                      !.GlyphIdArray = Checked(@, arrays, 7),
                      !.chars = IF Got(arrays, 7) THEN segs.chars ELSE @],
     r |-> segs.r,
     stores |-> segs.stores]

CmapFromArrays(file, m, recs, head, arrays) ==
    CmapResult(m, recs, head, arrays, CmapSegments(file, head, arrays))

CmapFromHead(file, m, recs, head) ==
    CmapFromArrays(file, m, recs, head, ReadSubtableArrays(file, head))

CmapFromEncodings(file, m, recs) ==
    CmapFromHead(file, m, recs,
                 ReadFields(file, CmapFormat(file, m.tables, recs), SubtableHead))

ParseCmap(file, m, r0) == CmapFromEncodings(file, m, CmapEncodings(file, m.tables, r0))

(***************************************************************************)
(* regexp, as PregReplace uses it: a pattern is a sequence of alternatives, *)
(* each the empty expression or a class of characters.  The match at a      *)
(* position is that of the first alternative that matches there (leftmost-  *)
(* first); ReplaceAllString replaces match after match, and after an empty  *)
(* match moves on by one character.                                         *)
(***************************************************************************)
EmptyAlt == [class |-> FALSE, chars |-> {}]

ClassAlt(chars) == [class |-> TRUE, chars |-> chars]

\* "|[ \\[\\](){}<>/%]|": the bars, delimiters where the pattern came from,
\* are alternations here, with an empty alternative first and last.
NamePattern ==
    <<EmptyAlt, ClassAlt({32, 91, 93, 40, 41, 123, 125, 60, 62, 47, 37}), EmptyAlt>>

AltMatches(alt, subject, p) ==
    IF alt.class THEN p < Len(subject) /\ subject[p + 1] \in alt.chars ELSE TRUE

\* The first alternative that matches at p, or 0.
FirstAlt(pattern, subject, p) ==
    IF \E k \in 1..Len(pattern) : AltMatches(pattern[k], subject, p)
    THEN CHOOSE j \in 1..Len(pattern) :
             /\ AltMatches(pattern[j], subject, p)
             /\ \A h \in 1..(j - 1) : ~AltMatches(pattern[h], subject, p)
    ELSE 0

AltEnd(pattern, p, k) == IF k = 0 THEN -1 ELSE IF pattern[k].class THEN p + 1 ELSE p

\* The end of the match that starts at p, or -1.
MatchEnd(pattern, subject, p) == AltEnd(pattern, p, FirstAlt(pattern, subject, p))

\* The start of the leftmost match from searchPos on, or -1.
MatchStart(pattern, src, searchPos) ==
    IF \E q \in searchPos..Len(src) : MatchEnd(pattern, src, q) >= 0
    THEN CHOOSE q \in searchPos..Len(src) :
             /\ MatchEnd(pattern, src, q) >= 0
             /\ \A q2 \in searchPos..(q - 1) : MatchEnd(pattern, src, q2) < 0
    ELSE -1

\* Where the search goes on after a match that ended at a1: one character on
\* after an empty match.
NextSearch(searchPos, length, a1) ==
    IF searchPos + (IF searchPos < length THEN 1 ELSE 0) > a1
    THEN searchPos + (IF searchPos < length THEN 1 ELSE 0)
    ELSE IF searchPos + 1 > a1 THEN searchPos + 1
    ELSE a1

\* The text before the match, and the replacement unless the match is empty
\* and sits right after the match before it.
Copied(replacement, src, lastMatchEnd, buf, a0, a1) ==
    buf \o SubSeq(src, lastMatchEnd + 1, a0)
        \o (IF a1 > lastMatchEnd \/ a0 = 0 THEN replacement ELSE <<>>)

RECURSIVE ReplaceAll(_, _, _, _, _, _)
RECURSIVE ReplaceMatch(_, _, _, _, _, _, _, _)
ReplaceMatch(pattern, replacement, src, searchPos, lastMatchEnd, buf, a0, a1) ==
    ReplaceAll(pattern, replacement, src, NextSearch(searchPos, Len(src), a1), a1,
               Copied(replacement, src, lastMatchEnd, buf, a0, a1))

RECURSIVE ReplaceFrom(_, _, _, _, _, _, _)
ReplaceFrom(pattern, replacement, src, searchPos, lastMatchEnd, buf, a0) ==
    IF a0 < 0 THEN buf \o SubSeq(src, lastMatchEnd + 1, Len(src))
    ELSE ReplaceMatch(pattern, replacement, src, searchPos, lastMatchEnd, buf, a0,
                      MatchEnd(pattern, src, a0))

ReplaceAll(pattern, replacement, src, searchPos, lastMatchEnd, buf) ==
    IF searchPos > Len(src) THEN buf \o SubSeq(src, lastMatchEnd + 1, Len(src))
    ELSE ReplaceFrom(pattern, replacement, src, searchPos, lastMatchEnd, buf,
                     MatchStart(pattern, src, searchPos))

PregReplace(pattern, replacement, subject) ==
    ReplaceAll(pattern, replacement, subject, 0, 0, <<>>)

\* The payload of the PostScript name as ParseName stores it: the zero bytes
\* dropped, then every "0" (strconv.Itoa(0)) replaced by "", then PregReplace.
SanitizeName(stmp) ==
    PregReplace(NamePattern, <<>>,
                SelectSeq(SelectSeq(stmp, LAMBDA v : v # 0), LAMBDA v : v # 48))

\* The name records: platformID/encodingID/languageID skipped, nameID, length,
\* offset; the first of nameID 6 ends the loop.
NameRecord == <<SkipF(6), UShortF, UShortF, UShortF>>

PostScriptNameOf(stmp) ==
    [r |-> stmp.r, name |-> IF stmp.r.err = NoErr THEN SanitizeName(stmp.b) ELSE <<>>]

\* The payload of a record of nameID 6, read at tableOffset+stringOffset+offset.
ReadPostScriptName(file, rec, tableOff, stringOff) ==
    PostScriptNameOf(Read(file, SeekTo(rec.r, tableOff + stringOff + rec.vals[4]),
                          rec.vals[3]))

RECURSIVE NameLoop(_, _, _, _, _)
RECURSIVE NameNext(_, _, _, _, _)
NameNext(file, rec, n, tableOff, stringOff) ==
    IF rec.r.err # NoErr THEN [r |-> rec.r, name |-> <<>>]
    ELSE IF rec.vals[2] = 6 THEN ReadPostScriptName(file, rec, tableOff, stringOff)
    ELSE NameLoop(file, rec.r, n - 1, tableOff, stringOff)

NameLoop(file, r, n, tableOff, stringOff) ==
    IF n = 0 \/ r.err # NoErr THEN [r |-> r, name |-> <<>>]
    ELSE NameNext(file, ReadFields(file, r, NameRecord), n, tableOff, stringOff)

\* FTell, format, count, stringOffset.
NameLayout == <<FTellF, SkipF(2), UShortF, UShortF>>

NameResult(m, x, loop) ==
    [me |-> [m EXCEPT !.postScriptName = IF Got(x, 1) THEN loop.name ELSE @],
     r |-> IF loop.r.err = NoErr /\ loop.name = <<>>
           THEN Fail(loop.r, ERROR_POSTSCRIPT_NAME_NOT_FOUND) ELSE loop.r]

NameFromHead(file, m, x) ==
    NameResult(m, x,
               IF x.r.err # NoErr THEN [r |-> x.r, name |-> <<>>]
               ELSE NameLoop(file, x.r, x.vals[3], x.vals[1], x.vals[4]))

ParseName(file, m, r0) ==
    NameFromHead(file, m, ReadFields(file, Seek(m.tables, r0, TagName), NameLayout))

\* version, xAvgCharWidth/usWeightClass/usWidthClass, fsType, 52 bytes,
\* fsSelection, usFirstCharIndex/usLastCharIndex, sTypoAscender, sTypoDescender,
\* sTypoLineGap, usWinAscent, usWinDescent.
OS2Layout ==
    <<UShortF, SkipF(6), UShortF, SkipF(52), UShortF, SkipF(4), ShortF, ShortF, ShortF,
      UShortF, UShortF>>

\* From version 2 on: the code page ranges, sxHeight, sCapHeight.
OS2Version2Layout == <<SkipF(8), ShortF, ShortF>>

OS2Result(m, x, y) ==
    [me |-> [m EXCEPT !.os2Version = Checked(@, x, 1),
                      !.Embeddable = IF Got(x, 3)
                                     THEN x.vals[3] # 2 /\ (x.vals[3] \div 512) % 2 = 0
                                     ELSE @,
                      !.Bold = IF Got(x, 5) THEN (x.vals[5] \div 32) % 2 # 0 ELSE @,
                      !.typoAscender = Direct(@, x, 7),
                      !.typoDescender = Direct(@, x, 8),
                      !.sTypoLineGap = Direct(@, x, 9),
                      !.usWinAscent = Direct(@, x, 10),
                      !.usWinDescent = Direct(@, x, 11),
                      !.sxHeight = Direct(@, y, 2),
                      !.capHeight = IF x.r.err = NoErr /\ x.vals[1] < 2 THEN m.ascender
                                    ELSE Direct(@, y, 3)],
     r |-> y.r]

\* ParseOS2 from "if version >= 2" on.
OS2FromVersion(file, m, x) ==
    OS2Result(m, x,
              IF x.r.err = NoErr /\ x.vals[1] >= 2
              THEN ReadFields(file, x.r, OS2Version2Layout)
              ELSE NoFields(x.r))

ParseOS2(file, m, r0) ==
    OS2FromVersion(file, m, ReadFields(file, Seek(m.tables, r0, TagOS2), OS2Layout))

\* version, italicAngle, its fraction, underlinePosition, underlineThickness,
\* isFixedPitch.
PostLayout == <<SkipF(4), ShortF, SkipF(2), ShortF, ShortF, ULongF>>

PostResult(m, x) ==
    [me |-> [m EXCEPT !.italicAngle = Direct(@, x, 2),
                      !.underlinePosition = Direct(@, x, 4),
                      !.underlineThickness = Direct(@, x, 5),
                      !.isFixedPitch = IF Got(x, 6) THEN x.vals[6] # 0 ELSE @],
     r |-> x.r]

ParsePost(file, m, r0) ==
    PostResult(m, ReadFields(file, Seek(m.tables, r0, TagPost), PostLayout))

\* The entries of loca: 2-byte values doubled, or 4-byte values as they are.
RECURSIVE LocaLoop(_, _, _, _, _)
RECURSIVE LocaNext(_, _, _, _, _)
LocaNext(file, item, n, short, acc) ==
    IF item.r.err # NoErr THEN [r |-> item.r, a |-> acc]
    ELSE LocaLoop(file, item.r, n - 1, short,
                  Append(acc, IF short THEN item.v * 2 ELSE item.v))

LocaLoop(file, r, n, short, acc) ==
    IF n = 0 \/ r.err # NoErr THEN [r |-> r, a |-> acc]
    ELSE LocaNext(file, IF short THEN ReadUShort(file, r) ELSE ReadULong(file, r),
                  n, short, acc)

LocaResult(m, loop) ==
    [me |-> [m EXCEPT !.IsShortIndex = (m.indexToLocFormat = 0),
                      !.LocaTable = IF loop.r.err = NoErr THEN loop.a ELSE @],
     r |-> loop.r]

ParseLoca(file, m, r0) ==
    LocaResult(m, IF TagLoca \notin DOMAIN m.tables
                  THEN [r |-> Seek(m.tables, r0, TagLoca), a |-> <<>>]
                  ELSE LocaLoop(file, Seek(m.tables, r0, TagLoca),
                                m.tables[TagLoca].Length
                                    \div (IF m.indexToLocFormat = 0 THEN 2 ELSE 4),
                                m.indexToLocFormat = 0, <<>>))

(***************************************************************************)
(* The state: the parser instance me; pc, where the running Parse is       *)
(* ("idle" between calls, "crashed" after a panic); fd, the reader, whose   *)
(* err after a call is the error Parse returned; font, the path of the      *)
(* running or last call.  For the record: calls, the calls made; ran and    *)
(* errs, the stages the running call has executed and what each returned;   *)
(* stores, the character-map assignments of the last ParseCmap;             *)
(* cacheBefore, me.cahceFontData when the call began; okRuns, the font and  *)
(* the results of each Parse that returned nil.                             *)
(***************************************************************************)
VARIABLES me, pc, fd, font, calls, ran, errs, stores, cacheBefore, okRuns

vars == <<me, pc, fd, font, calls, ran, errs, stores, cacheBefore, okRuns>>

StageOrder ==
    <<"dir", "head", "hhea", "maxp", "hmtx", "cmap", "name", "os2", "post", "loca",
      "cache">>

StageIndex(stage) == CHOOSE k \in 1..Len(StageOrder) : StageOrder[k] = stage

\* What Parse hands to its callers through the accessors: the metrics, the
\* advance widths, the character map.
Results(m) ==
    [metrics |-> <<m.unitsPerEm, m.xMin, m.yMin, m.xMax, m.yMax, m.ascender,
                   m.descender, m.numGlyphs, m.numberOfHMetrics, m.os2Version,
                   m.typoAscender, m.typoDescender, m.capHeight, m.sxHeight,
                   m.italicAngle, m.underlinePosition, m.underlineThickness,
                   m.usWinAscent, m.usWinDescent, m.symbol>>,
     numGlyphs |-> m.numGlyphs,
     widths |-> m.widths,
     chars |-> m.chars]

Init ==
    /\ me = NewParser
    /\ pc = "idle"
    /\ fd = [pos |-> 0, err |-> NoErr, short |-> FALSE]
    /\ font = 0
    /\ calls = 0
    /\ ran = <<>>
    /\ errs = <<>>
    /\ stores = <<>>
    /\ cacheBefore = <<>>
    /\ okRuns = <<>>

\* Parse without its tests of err: every stage runs.
AfterStageIgnoringError(stage, e) ==
    IF stage = "cache" THEN "idle" ELSE StageOrder[StageIndex(stage) + 1]

\* Where Parse goes after a stage that returned e: "if err != nil { return err }".
AfterStage(stage, e) ==
    IF e = PanicIndex THEN "crashed"
    ELSE IF e # NoErr THEN "idle"
    ELSE IF stage = "cache" THEN "idle"
    ELSE StageOrder[StageIndex(stage) + 1]

\* Parse(fontpath), as far as os.Open, which succeeds.
Open(f) ==
    /\ pc = "idle"
    /\ calls < MaxParses
    /\ font' = f
    /\ calls' = calls + 1
    /\ fd' = [pos |-> 0, err |-> NoErr, short |-> FALSE]
    /\ pc' = "dir"
    /\ ran' = <<>>
    /\ errs' = <<>>
    /\ cacheBefore' = me.cahceFontData
    /\ UNCHANGED <<me, stores, okRuns>>

\* Parse(fontpath) of a path os.Open cannot open.
OpenFails ==
    /\ pc = "idle"
    /\ calls < MaxParses
    /\ font' = 0
    /\ calls' = calls + 1
    /\ fd' = [pos |-> 0, err |-> ErrOpen, short |-> FALSE]
    /\ ran' = <<>>
    /\ errs' = <<>>
    /\ cacheBefore' = me.cahceFontData
    /\ UNCHANGED <<me, pc, stores, okRuns>>

\* One stage of Parse and the test of its error.
Stage(stage, res) ==
    /\ pc = stage
    /\ me' = res.me
    /\ ran' = Append(ran, stage)
    /\ errs' = Append(errs, res.r.err)
    /\ pc' = AfterStage(stage, res.r.err)
    /\ fd' = IF pc' \in {"idle", "crashed"} THEN res.r ELSE ErrorDropped(res.r)
    /\ UNCHANGED <<font, calls, cacheBefore, okRuns>>

Directory == Stage("dir", ParseDirectory(Fonts[font], me, fd)) /\ UNCHANGED stores

Head_ == Stage("head", ParseHead(Fonts[font], me, fd)) /\ UNCHANGED stores

Hhea == Stage("hhea", ParseHhea(Fonts[font], me, fd)) /\ UNCHANGED stores

Maxp == Stage("maxp", ParseMaxp(Fonts[font], me, fd)) /\ UNCHANGED stores

Hmtx == Stage("hmtx", ParseHmtx(Fonts[font], me, fd)) /\ UNCHANGED stores

\* ParseCmap, with the record of its assignments to me.chars.
Cmap ==
    /\ Stage("cmap", ParseCmap(Fonts[font], me, fd))
    /\ stores' = ParseCmap(Fonts[font], me, fd).stores

Name == Stage("name", ParseName(Fonts[font], me, fd)) /\ UNCHANGED stores

OS2 == Stage("os2", ParseOS2(Fonts[font], me, fd)) /\ UNCHANGED stores

Post == Stage("post", ParsePost(Fonts[font], me, fd)) /\ UNCHANGED stores

Loca == Stage("loca", ParseLoca(Fonts[font], me, fd)) /\ UNCHANGED stores

\* readFontData reads the file again, whole, and Parse returns nil.
Cache ==
    /\ pc = "cache"
    /\ me' = [me EXCEPT !.cahceFontData = Fonts[font]]
    /\ ran' = Append(ran, "cache")
    /\ errs' = Append(errs, NoErr)
    /\ pc' = AfterStage("cache", NoErr)
    /\ okRuns' = Append(okRuns, [font |-> font, results |-> Results(me')])
    /\ UNCHANGED <<fd, font, calls, stores, cacheBefore>>

\* ioutil.ReadFile fails (the file went away): the field is set to nil.
CacheFails ==
    /\ pc = "cache"
    /\ me' = [me EXCEPT !.cahceFontData = <<>>]
    /\ ran' = Append(ran, "cache")
    /\ errs' = Append(errs, ErrOpen)
    /\ pc' = AfterStage("cache", ErrOpen)
    /\ fd' = Fail(fd, ErrOpen)
    /\ UNCHANGED <<font, calls, stores, cacheBefore, okRuns>>

Next ==
    \/ \E f \in 1..Len(Fonts) : Open(f)
    \/ OpenFails
    \/ Directory
    \/ Head_
    \/ Hhea
    \/ Maxp
    \/ Hmtx
    \/ Cmap
    \/ Name
    \/ OS2
    \/ Post
    \/ Loca
    \/ Cache
    \/ CacheFails

Spec == Init /\ [][Next]_vars

(***************************************************************************)
(* Properties.  A call that is running or has returned is read from ran    *)
(* and errs: errs[k] is what stage ran[k] returned.                        *)
(***************************************************************************)
StageRan(stage) == Len(ran) >= StageIndex(stage)

StageErr(stage) == errs[StageIndex(stage)]

StageDone(stage) == StageRan(stage) /\ StageErr(stage) = NoErr

LastStage == ran[Len(ran)]

LastErr == errs[Len(errs)]

\* The table each stage seeks to.
StageTag ==
    [head |-> TagHead, hhea |-> TagHhea, maxp |-> TagMaxp, hmtx |-> TagHmtx,
     cmap |-> TagCmap, name |-> TagName, os2 |-> TagOS2, post |-> TagPost,
     loca |-> TagLoca]

\* C1: Parse runs its stages in the order directory, head, hhea, maxp, hmtx,
\* cmap, name, OS/2, post, loca, cache; a stage runs only if every stage
\* before it returned nil; Parse returns the error of the first stage that
\* fails, and that call does not cache the font bytes; Parse returns nil only
\* after all eleven stages.
ParseStopsAtFirstFailure ==
    /\ Len(errs) = Len(ran)
    /\ ran = SubSeq(StageOrder, 1, Len(ran))
    /\ \A k \in 1..(Len(errs) - 1) : errs[k] = NoErr
    /\ pc \notin {"idle", "crashed"} =>
          /\ Len(ran) < Len(StageOrder)
          /\ pc = StageOrder[Len(ran) + 1]
          /\ \A k \in 1..Len(errs) : errs[k] = NoErr
    /\ (pc = "idle" /\ ran # <<>> /\ LastErr # NoErr) =>
          /\ fd.err = LastErr
          /\ me.cahceFontData = IF LastStage = "cache" THEN <<>> ELSE cacheBefore
    /\ (pc = "idle" /\ ran # <<>> /\ LastErr = NoErr) =>
          /\ ran = StageOrder
          /\ fd.err = NoErr

\* C1, its case: a second call that failed in a table stage, on an instance
\* that holds the bytes of another font from the first call.
ParseStoppedEarly ==
    /\ pc = "idle"
    /\ calls = 2
    /\ Len(ran) \in 2..10
    /\ LastErr # NoErr
    /\ cacheBefore # <<>>
    /\ cacheBefore # Fonts[font]
    /\ me.cahceFontData = cacheBefore

\* C2: a stage whose table is absent from the directory returns the not-found
\* error of Seek (and so reads nothing of the table).
AbsentTableIsNotFound ==
    \A k \in 2..Min(Len(ran), 10) :
        StageTag[StageOrder[k]] \notin DOMAIN me.tables => errs[k] = ErrNotFound

\* C3: ParseHmtx with numberOfHMetrics = 0 and glyphs to pad for returns an
\* error to Parse: it does not crash and does not return nil.
NoMetricsIsAnError ==
    (StageRan("hmtx") /\ me.numberOfHMetrics = 0 /\ me.numGlyphs > 0) =>
        /\ pc = "idle"
        /\ StageErr("hmtx") \notin {NoErr, PanicIndex}

\* C4: a Read that asks for bytes beyond the end of the file makes Parse
\* return io.EOF or "file out of length", at once; no Parse of a file that
\* ends early returns nil.
ShortReadMakesParseFail ==
    /\ fd.short => pc = "idle" /\ fd.err \in ShortReadErrors
    /\ \A k \in 1..Len(okRuns) : FontDescs[okRuns[k].font].cut < 0

\* C4, its case: a file that ends inside a table, one byte into a field.
TruncatedTableReported ==
    /\ pc = "idle"
    /\ fd.short
    /\ fd.err = ErrOutOfLength
    /\ Len(ran) >= 5
    /\ FontDescs[font].cut > 0

\* C5: after every Parse that returned nil, Widths() has NumGlyphs() entries.
WidthsLengthIsGlyphCount ==
    \A k \in 1..Len(okRuns) :
        Len(okRuns[k].results.widths) = okRuns[k].results.numGlyphs

\* C6: after ParseHmtx returned nil with 0 < numberOfHMetrics < numGlyphs,
\* the widths below numberOfHMetrics are the advance widths of this font's
\* hmtx table, in order, and those from numberOfHMetrics on equal
\* width[numberOfHMetrics-1].
PaddingLaw ==
    (/\ StageDone("hmtx")
     /\ TagHmtx \in DOMAIN me.tables
     /\ 0 < me.numberOfHMetrics
     /\ me.numberOfHMetrics < me.numGlyphs) =>
        /\ Len(me.widths) >= me.numGlyphs
        /\ \A i \in 1..me.numberOfHMetrics : me.widths[i] = FontDescs[font].aw[i]
        /\ \A i \in (me.numberOfHMetrics + 1)..me.numGlyphs :
               me.widths[i] = me.widths[me.numberOfHMetrics]

\* C7: two Parse calls of the same font that returned nil left the same
\* metrics, the same widths and the same character map.
ParseIsDeterministic ==
    \A a, b \in 1..Len(okRuns) :
        okRuns[a].font = okRuns[b].font => okRuns[a].results = okRuns[b].results

\* The assignments segment i (counted from 1) made for codepoint c.
StoresOf(i, c) ==
    {stores[k] : k \in {h \in 1..Len(stores) : stores[h][1] = i - 1 /\ stores[h][2] = c}}

\* Whether the loop of segment i comes to codepoint X.
Covers(i, X) == me.StartCount[i] <= X /\ X <= me.EndCount[i] /\ X # 65535

Covering(X) == {i \in 1..me.SegCount : Covers(i, X)}

CoveredPoints ==
    UNION {me.StartCount[i]..me.EndCount[i] : i \in 1..me.SegCount} \ {65535}

\* C8: after ParseCmap returned nil, for a segment i with idRangeOffset 0 and
\* a codepoint c # 0xFFFF of its range, the segment assigns c the glyph
\* (c + idDelta[i]) mod 65536 if that is not 0 and assigns nothing if it is;
\* a codepoint no other segment covers is in the map, with that glyph, exactly
\* when the glyph is not 0; no key of the map is 0xFFFF, no glyph in it is 0,
\* and no segment assigns 0xFFFF or anything after it.
SegmentLaw ==
    StageDone("cmap") =>
        /\ \A i \in 1..me.SegCount : me.IdRangeOffset[i] = 0 =>
               \A c \in (me.StartCount[i]..me.EndCount[i]) \ {65535} :
                   /\ StoresOf(i, c) =
                          IF (c + me.IdDelta[i]) % 65536 # 0
                          THEN {<<i - 1, c, (c + me.IdDelta[i]) % 65536>>} ELSE {}
                   /\ Covering(c) = {i} =>
                          IF (c + me.IdDelta[i]) % 65536 # 0
                          THEN c \in DOMAIN me.chars
                               /\ me.chars[c] = (c + me.IdDelta[i]) % 65536
                          ELSE c \notin DOMAIN me.chars
        /\ \A c \in DOMAIN me.chars : c # 65535 /\ me.chars[c] # 0
        /\ \A k \in 1..Len(stores) : stores[k][2] < 65535 /\ stores[k][3] # 0

\* C8, its case: a segment 65533..65535 of idRangeOffset 0 whose first
\* codepoint resolves to glyph 0 and whose second is stored.
SegmentReachesSentinel ==
    /\ StageDone("cmap")
    /\ \E i \in 1..me.SegCount :
           /\ me.IdRangeOffset[i] = 0
           /\ me.StartCount[i] = 65533
           /\ me.EndCount[i] = 65535
    /\ 65533 \notin DOMAIN me.chars
    /\ 65534 \in DOMAIN me.chars

\* What segment i resolved codepoint X to: the glyph it assigned, 0 if it
\* assigned none.
Resolved(i, X) ==
    IF me.IdRangeOffset[i] = 0 THEN (X + me.IdDelta[i]) % 65536
    ELSE IF StoresOf(i, X) = {} THEN 0
    ELSE (CHOOSE s \in StoresOf(i, X) : TRUE)[3]

LastOf(S) == CHOOSE i \in S : \A j \in S : j <= i

\* C9 as stated: where several segments cover X, the map holds the result of
\* the last of them: its glyph if that is not 0, no entry for X if it is 0.
OverlapLastSegmentDecides ==
    StageDone("cmap") =>
        \A X \in CoveredPoints : Cardinality(Covering(X)) >= 2 =>
            IF Resolved(LastOf(Covering(X)), X) # 0
            THEN X \in DOMAIN me.chars
                 /\ me.chars[X] = Resolved(LastOf(Covering(X)), X)
            ELSE X \notin DOMAIN me.chars

\* The segments covering X that resolve it to a glyph other than 0.
Assigning(X) == {i \in Covering(X) : Resolved(i, X) # 0}

\* C9, amended: where several segments cover X, the map holds the glyph of
\* the last segment that resolves X to a glyph other than 0 (a later segment
\* resolving X to 0 leaves that entry), and no entry for X if none does.
OverlapLastAssignmentWins ==
    StageDone("cmap") =>
        \A X \in CoveredPoints : Cardinality(Covering(X)) >= 2 =>
            IF Assigning(X) # {}
            THEN X \in DOMAIN me.chars
                 /\ me.chars[X] = Resolved(LastOf(Assigning(X)), X)
            ELSE X \notin DOMAIN me.chars

\* C9, its case: two segments cover X, the later resolves it to 0, the
\* earlier to a glyph, and another codepoint is resolved to a glyph by both.
OverlapWithLaterZero ==
    /\ StageDone("cmap")
    /\ \E X \in CoveredPoints :
           /\ Cardinality(Covering(X)) >= 2
           /\ Resolved(LastOf(Covering(X)), X) = 0
           /\ Assigning(X) # {}
    /\ \E X \in CoveredPoints : Cardinality(Assigning(X)) >= 2

\* The characters C10 names, and the zero byte.
Forbidden == {32, 91, 93, 40, 41, 123, 125, 60, 62, 47, 37}

\* The payload of the font's first name record of nameID 6.
FirstPostScriptPayload(d) ==
    d.names[CHOOSE k \in 1..Len(d.names) :
                /\ d.names[k].id = 6
                /\ \A h \in 1..(k - 1) : d.names[h].id # 6].payload

\* C10: after ParseName returned nil, the PostScript name is the payload of
\* the first record of nameID 6 less its zero bytes and the characters
\* space [ ] ( ) { } < > / %, every other character kept, in order.
NameIsPayloadSanitized ==
    StageDone("name") =>
        me.postScriptName =
            SelectSeq(FirstPostScriptPayload(FontDescs[font]),
                      LAMBDA v : v \notin Forbidden \cup {0})

\* The unsigned 2-byte value at file position p.
UShortAt(file, p) == SetBytes(SubSeq(file, p + 1, p + 2))

\* The position of the idRangeOffset array in the file of font description
\* d: the cmap table, its header and encoding records, the 14 bytes of the
\* subtable's head, endCount, reservedPad, startCount, idDelta.
RecordedOffset(d) ==
    me.tables[TagCmap].Offset + 4 + 8 * Len(d.encs) + 16 + 6 * Len(d.segs)

\* The glyph index made of a value of glyphIdArray.
GlyphFrom(value, i) == IF value # 0 THEN (value + me.IdDelta[i]) % 65536 ELSE 0

\* The codepoints of the segments with idRangeOffset # 0, as <<i, c>>.
RangeOffsetPoints ==
    {<<i, c>> \in (1..me.SegCount) \X CoveredPoints :
        me.IdRangeOffset[i] # 0 /\ Covers(i, c)}

\* C11 as stated: for a segment i (counted from 0) with idRangeOffset # 0,
\* every codepoint c # 0xFFFF of its range gets the glyph made of the value
\* at recordedOffset + 2*i + idRangeOffset[i], and is assigned it exactly
\* when it is not 0.
GlyphFromSegmentPosition ==
    (StageDone("cmap") /\ TagCmap \in DOMAIN me.tables) =>
        \A ic \in RangeOffsetPoints :
            StoresOf(ic[1], ic[2]) =
                IF GlyphFrom(UShortAt(Fonts[font],
                                      RecordedOffset(FontDescs[font]) + 2 * (ic[1] - 1)
                                      + me.IdRangeOffset[ic[1]]), ic[1]) # 0
                THEN {<<ic[1] - 1, ic[2],
                        GlyphFrom(UShortAt(Fonts[font],
                                           RecordedOffset(FontDescs[font])
                                           + 2 * (ic[1] - 1)
                                           + me.IdRangeOffset[ic[1]]), ic[1])>>}
                ELSE {}

\* C11, amended: the value of codepoint c is the one at recordedOffset + 2*i
\* + idRangeOffset[i] + 2*(c - startCount[i]): the code seeks once per
\* segment and reads one value after the other.
GlyphFromCodepointPosition ==
    (StageDone("cmap") /\ TagCmap \in DOMAIN me.tables) =>
        \A ic \in RangeOffsetPoints :
            StoresOf(ic[1], ic[2]) =
                IF GlyphFrom(UShortAt(Fonts[font],
                                      RecordedOffset(FontDescs[font]) + 2 * (ic[1] - 1)
                                      + me.IdRangeOffset[ic[1]]
                                      + 2 * (ic[2] - me.StartCount[ic[1]])), ic[1]) # 0
                THEN {<<ic[1] - 1, ic[2],
                        GlyphFrom(UShortAt(Fonts[font],
                                           RecordedOffset(FontDescs[font])
                                           + 2 * (ic[1] - 1)
                                           + me.IdRangeOffset[ic[1]]
                                           + 2 * (ic[2] - me.StartCount[ic[1]])),
                                  ic[1])>>}
                ELSE {}

\* C11, its case: a segment other than the first with idRangeOffset # 0 and
\* three codepoints, one of value 0 (not assigned), the others assigned
\* different glyphs.
RangeOffsetSegmentParsed ==
    /\ StageDone("cmap")
    /\ TagCmap \in DOMAIN me.tables
    /\ \E i \in 2..me.SegCount :
           /\ me.IdRangeOffset[i] # 0
           /\ me.EndCount[i] = me.StartCount[i] + 2
           /\ StoresOf(i, me.StartCount[i]) # {}
           /\ StoresOf(i, me.StartCount[i] + 1) = {}
           /\ StoresOf(i, me.EndCount[i]) # {}
           /\ StoresOf(i, me.EndCount[i]) # 
                  {<<s[1], me.EndCount[i], s[3]>> : s \in StoresOf(i, me.StartCount[i])}

====
